---- MODULE Spec2Model ----
(***************************************************************************)
(* Model of monitor_executive_purchases_dart.py: the OpenDart listing      *)
(* search (two market segments per page), the per-filing purchase check,   *)
(* the Telegram alert, the in-memory set of processed receipt numbers and  *)
(* the top-level main().                                                   *)
(*                                                                         *)
(* Text is modelled as a sequence of tokens.  Report names use the tokens  *)
(*   "imwon" (임원)  "araea" (ㆍ U+318D)  "middot" (· U+00B7)              *)
(*   "juyojuju" (주요주주)  "tail" (특정증권등소유상황보고서)              *)
(*   "sp" (a space)  "x" (any other text).                                 *)
(* Filing contents use the syllables                                       *)
(*   "jang" (장) "nae" (내) "mae" (매) "su" (수) "chwi" (취) "deuk" (득)   *)
(*   "sp" (a space)  "x" (any other text).                                 *)
(* Receipt numbers are modelled as the integers 1..NumReceipts.            *)
(***************************************************************************)
EXTENDS Integers, Sequences, FiniteSets, TLC

(* ------------------------------ bounds -------------------------------- *)
\* number of distinct receipt numbers the upstream may list
NumReceipts == 2
\* most qualifying entries the upstream serves to one search
MaxFound == 2
\* calls of monitor_executive_purchases on one resident instance
MaxRuns == 2
\* pages of PageSize/2 entries or more that the upstream holds per segment
\* while the resident instance is observed
ResidentBigPages == 1

(* ------------------------- program constants -------------------------- *)
\* page_count passed to get_disclosure_list and the short-page threshold
PageSize == 100
\* "최대 10페이지까지만 조회"
PageCap == 10

Receipts == 1..NumReceipts

(* ------------------------------- text --------------------------------- *)
\* Python's `k in s` for non-empty k
Contains(k, s) ==
    \E i \in 0..(Len(s) - Len(k)) : SubSeq(s, i + 1, i + Len(k)) = k

executive_keywords ==
    << <<"imwon", "araea", "juyojuju", "tail">>,
       <<"imwon", "middot", "juyojuju", "tail">>,
       <<"imwon", "tail">>,
       <<"juyojuju", "tail">> >>

\* variant: the report name has to be one of the keywords, not to contain one
IsExecutiveReportExact(report_nm) ==
    \E i \in 1..Len(executive_keywords) : executive_keywords[i] = report_nm

\* any(keyword in report_nm for keyword in executive_keywords)
IsExecutiveReport(report_nm) ==
    \E i \in 1..Len(executive_keywords) : Contains(executive_keywords[i], report_nm)

purchase_keywords ==
    << <<"jang", "nae", "mae", "su">>,
       <<"jang", "nae", "sp", "mae", "su">>,
       <<"mae", "su">>,
       <<"chwi", "deuk">> >>

\* any(keyword in content for keyword in purchase_keywords)
HasPurchaseKeyword(content) ==
    \E i \in 1..Len(purchase_keywords) : Contains(purchase_keywords[i], content)

NoInfo == [found |-> FALSE, transaction_type |-> "", reason |-> "", content_preview |-> <<>>]

\* variant: the loose phrase is tested before the strict one
extract_purchase_details_loose_first(content) ==
    IF Contains(<<"mae", "su">>, content)
    THEN [found |-> TRUE, transaction_type |-> "maesu",
          reason |-> "maesu", content_preview |-> content]
    ELSE IF Contains(<<"jang", "nae", "mae", "su">>, content)
            \/ Contains(<<"jang", "nae", "sp", "mae", "su">>, content)
    THEN [found |-> TRUE, transaction_type |-> "jangnaemaesu",
          reason |-> "jangnaemaesu", content_preview |-> content]
    ELSE NoInfo

\* extract_purchase_details: the classification of the content; the five
\* regex fields are best-effort strings that no decision depends on.
extract_purchase_details(content) ==
    IF Contains(<<"jang", "nae", "mae", "su">>, content)
       \/ Contains(<<"jang", "nae", "sp", "mae", "su">>, content)
    THEN [found |-> TRUE, transaction_type |-> "jangnaemaesu",
          reason |-> "jangnaemaesu", content_preview |-> content]
    ELSE IF Contains(<<"mae", "su">>, content)
    THEN [found |-> TRUE, transaction_type |-> "maesu",
          reason |-> "maesu", content_preview |-> content]
    ELSE NoInfo

(* ------------------------------- JSON --------------------------------- *)
\* A JSON value as the code reads it: kind "dict" (an object), "null" or
\* "array" (a non-empty top-level array).  status "none" = key absent.
Dict(status, has_list, list) ==
    [kind |-> "dict", status |-> status, has_list |-> has_list, list |-> list]

EmptyDict == Dict("none", FALSE, <<>>)
JsonNull == [kind |-> "null", status |-> "none", has_list |-> FALSE, list |-> <<>>]
JsonArray == [kind |-> "array", status |-> "none", has_list |-> FALSE, list |-> <<>>]

\* an HTTP exchange: transport outcome and, when a body was received, the body
Reply(transport, body) == [transport |-> transport, body |-> body]

\* variant: raise_for_status left out, the body of an error reply is used
get_disclosure_list_unchecked(reply) ==
    IF reply.transport \in {"ok", "http_error"} THEN reply.body ELSE EmptyDict

\* get_disclosure_list / get_disclosure_detail: the body of a 2xx reply that
\* parses as JSON, and {} after any exception
get_disclosure_list(reply) ==
    IF reply.transport = "ok" THEN reply.body ELSE EmptyDict

\* variant: raise_for_status left out of the detail call
get_disclosure_detail_unchecked(reply) ==
    IF reply.transport \in {"ok", "http_error"} THEN reply.body ELSE EmptyDict

get_disclosure_detail(reply) ==
    IF reply.transport = "ok" THEN reply.body ELSE EmptyDict

\* check_purchase_transaction on the value get_disclosure_detail returned.
\* A falsy value ({} or null) and a status other than "000" give None; a
\* top-level array has no .get and raises AttributeError; otherwise the
\* documents are scanned in list order and the first one that has a purchase
\* keyword and from which extract_purchase_details returns a dict wins.
FirstEvidence(docs) ==
    LET hits == {i \in 1..Len(docs) :
                    HasPurchaseKeyword(docs[i]) /\ extract_purchase_details(docs[i]).found}
    IN  IF hits = {} THEN NoInfo
        ELSE extract_purchase_details(docs[CHOOSE i \in hits : \A j \in hits : i <= j])

check_purchase_transaction(detail) ==
    IF detail.kind = "null" \/ detail = EmptyDict
    THEN [raised |-> FALSE, info |-> NoInfo]
    ELSE IF detail.kind # "dict"
    THEN [raised |-> TRUE, info |-> NoInfo]
    ELSE IF detail.status # "000"
    THEN [raised |-> FALSE, info |-> NoInfo]
    ELSE IF detail.has_list
    THEN [raised |-> FALSE, info |-> FirstEvidence(detail.list)]
    ELSE [raised |-> FALSE, info |-> NoInfo]

(* ----------------------- what the upstream serves --------------------- *)
\* a qualifying report name: title variant ((r-1) mod 4)+1 inside other text
QualName(r) == <<"x">> \o executive_keywords[((r - 1) % 4) + 1] \o <<"x">>
\* a near miss: "임원 특정증권등소유상황보고서" with a space
OtherName == <<"imwon", "sp", "tail">>

Entry(r, q) == [rcept_no |-> r, report_nm |-> IF q THEN QualName(r) ELSE OtherName]
\* an unrelated filing of some other kind
Filler == [rcept_no |-> 0, report_nm |-> <<"x">>]
FillerList(n) == [i \in 1..n |-> Filler]

\* room: the upstream may still serve a qualifying entry to this search
\* big: the upstream holds a long list for this page
ListReplies(room, big) ==
    {Reply("timeout", EmptyDict),
     Reply("http_error", Dict("000", TRUE, <<Entry(1, TRUE)>>)),
     Reply("bad_json", EmptyDict),
     Reply("ok", Dict("013", FALSE, <<>>)),
     Reply("ok", Dict("020", TRUE, <<Entry(1, TRUE)>>)),
     Reply("ok", Dict("000", FALSE, <<>>)),
     Reply("ok", JsonNull),
     Reply("ok", JsonArray),
     Reply("ok", Dict("000", TRUE, <<>>)),
     Reply("ok", Dict("000", TRUE, <<Entry(1, FALSE)>>))}
    \cup (IF big
          THEN {Reply("ok", Dict("000", TRUE, FillerList(PageSize \div 2))),
                Reply("ok", Dict("000", TRUE, FillerList(PageSize)))}
          ELSE {})
    \cup (IF room
          THEN {Reply("ok", Dict("000", TRUE, <<Entry(r, TRUE)>>)) : r \in Receipts}
          ELSE {})
    \cup (IF room /\ big
          THEN {Reply("ok", Dict("000", TRUE,
                      <<Entry(r, TRUE)>> \o FillerList(PageSize - 1))) : r \in Receipts}
          ELSE {})

C_onmarket == <<"x", "jang", "nae", "mae", "su", "x">>
C_onmarket_sp == <<"jang", "nae", "sp", "mae", "su">>
C_purchase == <<"x", "mae", "su">>
C_both == <<"mae", "su", "x", "jang", "nae", "mae", "su">>
C_acquire == <<"chwi", "deuk", "x">>
C_other == <<"x", "mae", "x", "su">>

DocLists ==
    {<<>>, <<C_onmarket>>, <<C_onmarket_sp>>, <<C_purchase>>, <<C_both>>,
     <<C_acquire>>, <<C_other>>, <<C_other, C_onmarket>>, <<C_acquire, C_purchase>>,
     <<C_purchase, C_onmarket>>, <<<<>>, C_acquire>>}

DetailReplies ==
    {Reply("timeout", EmptyDict),
     Reply("http_error", Dict("000", TRUE, <<C_onmarket>>)),
     Reply("bad_json", EmptyDict),
     Reply("ok", JsonNull),
     Reply("ok", JsonArray),
     Reply("ok", Dict("013", FALSE, <<>>)),
     Reply("ok", Dict("020", TRUE, <<C_onmarket>>)),
     Reply("ok", Dict("000", FALSE, <<>>))}
    \cup {Reply("ok", Dict("000", TRUE, docs)) : docs \in DocLists}

(* ------------------------------- state -------------------------------- *)
VARIABLES
    pc,                     \* position of the single thread of control
    telegram_token,         \* os.getenv('TELEGRAM_BOT_TOKEN'): "None", "" or "set"
    telegram_chat_id,       \* os.getenv('TELEGRAM_CHAT_ID')
    monitor,                \* 'monitor' in locals() of main
    processed_disclosures,  \* ExecutiveMonitor.processed_disclosures
    page_no,                \* search_executive_disclosures locals
    kospi_data,
    kosdaq_data,
    all_data,
    disclosures,
    upstream_pages,         \* pages for which the upstream holds long lists
    idx,                    \* position of the for loop over disclosures
    detail,                 \* check_purchase_transaction local: the fetched detail
    d_bad,                  \* the detail call failed or had status # "000"
    purchase_info,          \* monitor_executive_purchases locals
    purchase_results,
    send_result,            \* value the last send_message call returned
    result_file,            \* events written by save_results, <<>> if no file
    run_complete_logged,    \* the line logged by main's finally block
    outcome,                \* how main's try block ended, "" while it runs
    \* history of observable effects
    y_bad, k_bad,           \* the listing call of this page failed or had status # "000"
    iterations,             \* loop iterations of the current search
    list_calls,             \* listing requests issued in the current run
    detail_calls,           \* detail requests issued in the current run
    ev_count,               \* events appended, per receipt number
    send_count,             \* purchase alerts sent, per receipt number
    mark_count,             \* processed_disclosures.add calls, per receipt number
    send_failed,            \* receipt numbers whose alert send returned False
    detail_missed,          \* receipts with a detail call this run that gave None
    test_sends,             \* start-up test messages sent
    term_sends,             \* completion and error messages sent
    alerts,                 \* purchase alerts sent in the current run
    pauses,                 \* time.sleep(1) calls in the current run
    runs,                   \* calls of monitor_executive_purchases so far
    \* two executions on the same upstream replies
    mode,                   \* "live", or "record" / "replay" for the first / second of a pair
    call_log,               \* calls and replies of the first execution, in order
    replay_pos,             \* calls the second execution has issued
    first_run               \* what the first execution returned and left behind

searchVars == <<page_no, kospi_data, kosdaq_data, all_data, disclosures,
                y_bad, k_bad, iterations, list_calls>>
loopVars == <<idx, detail, d_bad, purchase_info, purchase_results, detail_calls,
              detail_missed, alerts, pauses>>
countVars == <<ev_count, send_count, mark_count, send_failed>>
mainVars == <<telegram_token, telegram_chat_id, monitor, result_file,
              run_complete_logged, outcome, test_sends, term_sends, upstream_pages>>
pairVars == <<mode, call_log, replay_pos, first_run>>
vars == <<pc, processed_disclosures, send_result, runs,
          searchVars, loopVars, countVars, mainVars, pairVars>>

NoRun == [results |-> <<>>, processed |-> {}, raised |-> FALSE, failed |-> {}]

Unset == [kind |-> "unset", status |-> "none", has_list |-> FALSE, list |-> <<>>]
EnvValues == {"None", "", "set"}

Common ==
    /\ processed_disclosures = {}
    /\ page_no = 0
    /\ kospi_data = Unset
    /\ kosdaq_data = Unset
    /\ all_data = <<>>
    /\ disclosures = <<>>
    /\ idx = 0
    /\ detail = Unset
    /\ d_bad = FALSE
    /\ purchase_info = NoInfo
    /\ purchase_results = <<>>
    /\ send_result = TRUE
    /\ result_file = <<>>
    /\ run_complete_logged = FALSE
    /\ outcome = ""
    /\ y_bad = FALSE
    /\ k_bad = FALSE
    /\ iterations = 0
    /\ list_calls = 0
    /\ detail_calls = 0
    /\ ev_count = [r \in Receipts |-> 0]
    /\ send_count = [r \in Receipts |-> 0]
    /\ mark_count = [r \in Receipts |-> 0]
    /\ send_failed = {}
    /\ detail_missed = {}
    /\ test_sends = 0
    /\ term_sends = 0
    /\ alerts = 0
    /\ pauses = 0
    /\ runs = 0
    /\ call_log = <<>>
    /\ replay_pos = 0
    /\ first_run = NoRun

\* one process running main(): the environment may or may not hold the
\* two messaging credentials
Init ==
    /\ pc = "main"
    /\ telegram_token \in EnvValues
    /\ telegram_chat_id \in EnvValues
    /\ monitor = FALSE
    /\ upstream_pages = PageCap
    /\ mode = "live"
    /\ Common

\* a resident process that has built one ExecutiveMonitor and calls
\* monitor_executive_purchases on it up to MaxRuns times
InitRuns ==
    /\ pc = "idle"
    /\ telegram_token = "set"
    /\ telegram_chat_id = "set"
    /\ monitor = TRUE
    /\ upstream_pages = ResidentBigPages
    /\ mode = "live"
    /\ Common

\* the first of two executions of monitor_executive_purchases, each on a
\* fresh instance, that are served the same replies by the upstream
InitPair ==
    /\ pc = "m_start"
    /\ telegram_token = "set"
    /\ telegram_chat_id = "set"
    /\ monitor = TRUE
    /\ upstream_pages = 0
    /\ mode = "record"
    /\ Common

(* ------------------------------- main --------------------------------- *)
\* setup_logging runs before the try block: os.makedirs or FileHandler may
\* raise, and then the exception leaves main at once
SetupLogging ==
    /\ pc = "main"
    /\ \/ pc' = "main_env"
       \/ pc' = "crashed"
    /\ UNCHANGED <<processed_disclosures, send_result, runs,
                   searchVars, loopVars, countVars, mainVars, pairVars>>

\* `not v` of an os.getenv value
Falsy(v) == v \in {"None", ""}

\* variant: the run is abandoned only when both credentials are missing
CredentialsBothMissing(token, chat_id) == Falsy(token) /\ Falsy(chat_id)

CredentialsMissing(token, chat_id) == Falsy(token) \/ Falsy(chat_id)

\* variant: the early return leaves main without the finally block
CheckEnvExit ==
    /\ pc = "main_env"
    /\ IF CredentialsMissing(telegram_token, telegram_chat_id)
       THEN pc' = "done" /\ outcome' = "no_credentials"
       ELSE pc' = "main_construct" /\ UNCHANGED outcome
    /\ UNCHANGED <<processed_disclosures, send_result, runs,
                   searchVars, loopVars, countVars, telegram_token, telegram_chat_id,
                   monitor, result_file, run_complete_logged, test_sends, term_sends,
                   upstream_pages, pairVars>>

CheckEnv ==
    /\ pc = "main_env"
    /\ IF CredentialsMissing(telegram_token, telegram_chat_id)
       THEN pc' = "finally" /\ outcome' = "no_credentials"
       ELSE pc' = "main_construct" /\ UNCHANGED outcome
    /\ UNCHANGED <<processed_disclosures, send_result, runs,
                   searchVars, loopVars, countVars, telegram_token, telegram_chat_id,
                   monitor, result_file, run_complete_logged, test_sends, term_sends,
                   upstream_pages, pairVars>>

ConstructMonitor ==
    /\ pc = "main_construct"
    /\ monitor' = TRUE
    /\ processed_disclosures' = {}
    /\ pc' = "main_test"
    /\ UNCHANGED <<send_result, runs, searchVars, loopVars, countVars,
                   telegram_token, telegram_chat_id, result_file,
                   run_complete_logged, outcome, test_sends, term_sends, upstream_pages, pairVars>>

\* send_message returns True, or False after any exception
SendTestMessage ==
    /\ pc = "main_test"
    /\ \E ok \in BOOLEAN : send_result' = ok
    /\ test_sends' = test_sends + 1
    /\ pc' = "m_start"
    /\ UNCHANGED <<processed_disclosures, runs, searchVars, loopVars, countVars,
                   telegram_token, telegram_chat_id, monitor, result_file,
                   run_complete_logged, outcome, term_sends, upstream_pages, pairVars>>

(* -------------------- search_executive_disclosures -------------------- *)
\* entry of monitor_executive_purchases and of the search it starts with
MonitorStart ==
    /\ pc = "m_start"
    /\ runs' = runs + 1
    /\ page_no' = 1
    /\ disclosures' = <<>>
    /\ kospi_data' = Unset
    /\ kosdaq_data' = Unset
    /\ all_data' = <<>>
    /\ y_bad' = FALSE
    /\ k_bad' = FALSE
    /\ iterations' = 0
    /\ list_calls' = 0
    /\ idx' = 0
    /\ detail' = Unset
    /\ d_bad' = FALSE
    /\ purchase_info' = NoInfo
    /\ purchase_results' = <<>>
    /\ detail_calls' = 0
    /\ detail_missed' = {}
    /\ alerts' = 0
    /\ pauses' = 0
    /\ pc' = "s_kospi"
    /\ UNCHANGED <<processed_disclosures, send_result, countVars, mainVars, pairVars>>

\* requests.get of list.json with corp_cls and page_no, of document.json
\* with rcept_no
ListCall(corp_cls, page) == [op |-> "list", corp_cls |-> corp_cls, arg |-> page]
DetailCall(rcept_no) == [op |-> "document", corp_cls |-> "", arg |-> rcept_no]

\* replies drawn for the first execution of a pair
PairListReplies ==
    {Reply("timeout", EmptyDict),
     Reply("ok", JsonArray),
     Reply("ok", Dict("000", TRUE, <<>>))}
    \cup {Reply("ok", Dict("000", TRUE, <<Entry(r, TRUE)>>)) : r \in Receipts}

PairDetailReplies ==
    {Reply("timeout", EmptyDict),
     Reply("ok", JsonArray)}
    \cup {Reply("ok", Dict("000", TRUE, docs)) :
             docs \in {<<C_onmarket>>, <<C_purchase>>, <<C_acquire>>}}

\* what the upstream may answer to this call: anything it holds (for the
\* first execution of a pair, out of the replies drawn for it); in the second
\* execution of a pair, what it answered to the same call of the first
Served(call, replies, first) ==
    IF mode = "replay"
    THEN IF replay_pos < Len(call_log) /\ call_log[replay_pos + 1].call = call
         THEN {call_log[replay_pos + 1].reply}
         ELSE replies
    ELSE IF mode = "record"
    THEN replies \cap first
    ELSE replies

Logged(call, reply) ==
    /\ call_log' = IF mode = "record"
                   THEN Append(call_log, [call |-> call, reply |-> reply])
                   ELSE call_log
    /\ replay_pos' = IF mode = "replay" THEN replay_pos + 1 ELSE replay_pos
    /\ UNCHANGED <<mode, first_run>>

\* the call failed in transport or answered with a status other than "000"
BadReply(reply) ==
    \/ reply.transport # "ok"
    \/ reply.body.kind = "dict" /\ reply.body.status # "000"

\* data.get('status') == '000' and 'list' in data  ->  data['list']
Contribution(data) ==
    IF data.status = "000" /\ data.has_list THEN data.list ELSE <<>>

Qualifying(list) == SelectSeq(list, LAMBDA item : IsExecutiveReport(item.report_nm))

GetKospi ==
    /\ pc = "s_kospi"
    /\ \E reply \in Served(ListCall("Y", page_no),
                         ListReplies(Len(disclosures) < MaxFound,
                                     page_no <= upstream_pages),
                         PairListReplies) :
          /\ kospi_data' = get_disclosure_list(reply)
          /\ y_bad' = BadReply(reply)
          /\ Logged(ListCall("Y", page_no), reply)
    /\ iterations' = iterations + 1
    /\ list_calls' = list_calls + 1
    /\ pc' = "s_kosdaq"
    /\ UNCHANGED <<processed_disclosures, send_result, runs, page_no, kosdaq_data,
                   all_data, disclosures, k_bad, loopVars, countVars, mainVars>>

GetKosdaq ==
    /\ pc = "s_kosdaq"
    /\ \E reply \in Served(ListCall("K", page_no),
                         ListReplies(Len(disclosures)
                                     + Len(Qualifying(Contribution(kospi_data)))
                                       < MaxFound,
                                     page_no <= upstream_pages),
                         PairListReplies) :
          /\ kosdaq_data' = get_disclosure_list(reply)
          /\ k_bad' = BadReply(reply)
          /\ Logged(ListCall("K", page_no), reply)
    /\ list_calls' = list_calls + 1
    /\ pc' = "s_merge"
    /\ UNCHANGED <<processed_disclosures, send_result, runs, page_no, kospi_data,
                   all_data, disclosures, y_bad, iterations, loopVars, countVars,
                   mainVars>>

\* the locals of a frame that has been left
SearchFrameGone ==
    /\ page_no' = 0
    /\ kospi_data' = Unset
    /\ kosdaq_data' = Unset
    /\ all_data' = <<>>
    /\ y_bad' = FALSE
    /\ k_bad' = FALSE

\* for data in [kospi_data, kosdaq_data]: data.get(...) raises AttributeError
\* when a call returned JSON that is not an object
Merge ==
    /\ pc = "s_merge"
    /\ IF kospi_data.kind # "dict" \/ kosdaq_data.kind # "dict"
       THEN /\ pc' = "m_raised"
            /\ SearchFrameGone
            /\ disclosures' = <<>>
       ELSE /\ pc' = "s_filter"
            /\ all_data' = Contribution(kospi_data) \o Contribution(kosdaq_data)
            /\ UNCHANGED <<page_no, kospi_data, kosdaq_data, disclosures, y_bad, k_bad>>
    /\ UNCHANGED <<processed_disclosures, send_result, runs, iterations, list_calls,
                   loopVars, countVars, mainVars, pairVars>>

\* variant: a page of exactly PageSize entries taken for a short one
ShortPageInclusive(data) == Len(data) <= PageSize

\* len(all_data) < 100
ShortPage(data) == Len(data) < PageSize

\* page_no > 10, tested after page_no += 1
PageCapReached(p) == p > PageCap

\* the values of one page are dead once the next iteration starts: every
\* one of them is assigned again before it is read
PageDataDead ==
    /\ kospi_data' = Unset
    /\ kosdaq_data' = Unset
    /\ all_data' = <<>>
    /\ y_bad' = FALSE
    /\ k_bad' = FALSE

PageDataKept == UNCHANGED <<kospi_data, kosdaq_data, all_data, y_bad, k_bad>>

\* the rest of one loop iteration: empty test, filter, short-page test,
\* page_no += 1, page cap test
FilterAndAdvance ==
    /\ pc = "s_filter"
    /\ IF all_data = <<>>
       THEN /\ pc' = "s_return"
            /\ UNCHANGED <<disclosures, page_no>>
            /\ PageDataKept
       ELSE /\ disclosures' = disclosures \o Qualifying(all_data)
            /\ IF ShortPage(all_data)
               THEN /\ pc' = "s_return"
                    /\ UNCHANGED page_no
                    /\ PageDataKept
               ELSE /\ page_no' = page_no + 1
                    /\ IF PageCapReached(page_no + 1)
                       THEN pc' = "s_return" /\ PageDataKept
                       ELSE pc' = "s_kospi" /\ PageDataDead
    /\ UNCHANGED <<processed_disclosures, send_result, runs, iterations, list_calls,
                   loopVars, countVars, mainVars, pairVars>>

SearchReturn ==
    /\ pc = "s_return"
    /\ SearchFrameGone
    /\ pc' = "m_check"
    /\ UNCHANGED <<processed_disclosures, send_result, runs, disclosures, iterations,
                   list_calls, loopVars, countVars, mainVars, pairVars>>

(* -------------------- monitor_executive_purchases --------------------- *)
\* if not disclosures: return []
CheckEmpty ==
    /\ pc = "m_check"
    /\ IF disclosures = <<>>
       THEN pc' = "m_returned" /\ idx' = 0
       ELSE pc' = "m_loop" /\ idx' = 1
    /\ UNCHANGED <<processed_disclosures, send_result, runs, searchVars,
                   detail, d_bad, purchase_info, purchase_results, detail_calls,
                   detail_missed,
                   alerts, pauses, countVars, mainVars, pairVars>>

\* variant: the duplicate test never fires
NeverProcessed(rcept_no, processed) == FALSE

\* disclosure.rcept_no in self.processed_disclosures
AlreadyProcessed(rcept_no, processed) == rcept_no \in processed

Current == disclosures[idx]

\* the for loop is exhausted: return purchase_results
LoopExit ==
    /\ pc = "m_loop"
    /\ idx > Len(disclosures)
    /\ pc' = "m_returned"
    /\ idx' = 0
    /\ disclosures' = <<>>
    /\ UNCHANGED <<processed_disclosures, send_result, runs, page_no, kospi_data,
                   kosdaq_data, all_data, y_bad, k_bad, iterations, list_calls,
                   detail, d_bad, purchase_info, purchase_results, detail_calls,
                   detail_missed,
                   alerts, pauses, countVars, mainVars, pairVars>>

\* variant: the pause is taken for a skipped disclosure, too
SkipProcessedWithPause ==
    /\ pc = "m_loop"
    /\ idx <= Len(disclosures)
    /\ AlreadyProcessed(Current.rcept_no, processed_disclosures)
    /\ idx' = idx + 1
    /\ pauses' = pauses + 1
    /\ UNCHANGED <<pc, processed_disclosures, send_result, runs, searchVars,
                   detail, d_bad, purchase_info, purchase_results, detail_calls,
                   detail_missed, alerts, countVars, mainVars, pairVars>>

\* continue
SkipProcessed ==
    /\ pc = "m_loop"
    /\ idx <= Len(disclosures)
    /\ AlreadyProcessed(Current.rcept_no, processed_disclosures)
    /\ idx' = idx + 1
    /\ UNCHANGED <<pc, processed_disclosures, send_result, runs, searchVars,
                   detail, d_bad, purchase_info, purchase_results, detail_calls,
                   detail_missed,
                   alerts, pauses, countVars, mainVars, pairVars>>

\* check_purchase_transaction, first statement:
\* detail = self.dart_api.get_disclosure_detail(rcept_no)
FetchDetail ==
    /\ pc = "m_loop"
    /\ idx <= Len(disclosures)
    /\ ~AlreadyProcessed(Current.rcept_no, processed_disclosures)
    /\ \E reply \in Served(DetailCall(Current.rcept_no), DetailReplies,
                         PairDetailReplies) :
          /\ detail' = get_disclosure_detail(reply)
          /\ d_bad' = BadReply(reply)
          /\ Logged(DetailCall(Current.rcept_no), reply)
    /\ detail_calls' = detail_calls + 1
    /\ pc' = "m_detail"
    /\ UNCHANGED <<processed_disclosures, send_result, runs, searchVars, idx,
                   purchase_info, purchase_results, detail_missed, alerts, pauses,
                   countVars, mainVars>>

\* the rest of check_purchase_transaction, and `if purchase_info:` of the caller
CheckPurchase ==
    /\ pc = "m_detail"
    /\ LET res == check_purchase_transaction(detail)
       IN  IF res.raised
           THEN /\ pc' = "m_raised"
                /\ idx' = 0
                /\ disclosures' = <<>>
                /\ purchase_results' = <<>>
                /\ UNCHANGED <<purchase_info, detail_missed>>
           ELSE IF res.info.found
           THEN /\ pc' = "m_append"
                /\ purchase_info' = res.info
                /\ UNCHANGED <<idx, disclosures, purchase_results, detail_missed>>
           ELSE /\ pc' = "m_loop"
                /\ idx' = idx + 1
                /\ detail_missed' = detail_missed \cup {Current.rcept_no}
                /\ UNCHANGED <<purchase_info, disclosures, purchase_results>>
    /\ detail' = Unset
    /\ d_bad' = FALSE
    /\ UNCHANGED <<processed_disclosures, send_result, runs, page_no, kospi_data,
                   kosdaq_data, all_data, y_bad, k_bad, iterations, list_calls,
                   detail_calls, alerts, pauses, countVars, mainVars, pairVars>>

\* result = {...}; purchase_results.append(result)
AppendResult ==
    /\ pc = "m_append"
    /\ purchase_results' = Append(purchase_results,
                                  [disclosure |-> Current, purchase_info |-> purchase_info])
    /\ ev_count' = [ev_count EXCEPT ![Current.rcept_no] = @ + 1]
    /\ pc' = "m_send"
    /\ UNCHANGED <<processed_disclosures, send_result, runs, searchVars, idx,
                   detail, d_bad, purchase_info, detail_calls, detail_missed,
                   alerts, pauses,
                   send_count, mark_count, send_failed, mainVars, pairVars>>

\* variant: the loop moves on as soon as the alert is handed over, without
\* recording the receipt number and without the pause
SendAlertNoWait ==
    /\ pc = "m_send"
    /\ \E ok \in BOOLEAN :
          /\ send_result' = ok
          /\ send_failed' = IF ok THEN send_failed
                            ELSE send_failed \cup {Current.rcept_no}
    /\ send_count' = [send_count EXCEPT ![Current.rcept_no] = @ + 1]
    /\ alerts' = alerts + 1
    /\ idx' = idx + 1
    /\ purchase_info' = NoInfo
    /\ pc' = "m_loop"
    /\ UNCHANGED <<processed_disclosures, runs, searchVars, detail, d_bad,
                   purchase_results, detail_calls, detail_missed, pauses,
                   ev_count, mark_count, mainVars, pairVars>>

\* variant: a failed send is raised to the caller
SendAlertRaises ==
    /\ pc = "m_send"
    /\ \E ok \in BOOLEAN :
          /\ send_result' = ok
          /\ send_failed' = IF ok THEN send_failed
                            ELSE send_failed \cup {Current.rcept_no}
          /\ IF ok
             THEN pc' = "m_mark" /\ UNCHANGED <<idx, disclosures, purchase_results>>
             ELSE /\ pc' = "m_raised"
                  /\ idx' = 0
                  /\ disclosures' = <<>>
                  /\ purchase_results' = <<>>
    /\ send_count' = [send_count EXCEPT ![Current.rcept_no] = @ + 1]
    /\ alerts' = alerts + 1
    /\ UNCHANGED <<processed_disclosures, runs, page_no, kospi_data, kosdaq_data,
                   all_data, y_bad, k_bad, iterations, list_calls, detail, d_bad,
                   purchase_info, detail_calls, detail_missed, pauses,
                   ev_count, mark_count, mainVars, pairVars>>

\* self.telegram.send_message(message): the returned bool is not looked at
SendAlert ==
    /\ pc = "m_send"
    /\ \E ok \in BOOLEAN :
          /\ send_result' = ok
          /\ send_failed' = IF ok THEN send_failed
                            ELSE send_failed \cup {Current.rcept_no}
    /\ send_count' = [send_count EXCEPT ![Current.rcept_no] = @ + 1]
    /\ alerts' = alerts + 1
    /\ pc' = "m_mark"
    /\ UNCHANGED <<processed_disclosures, runs, searchVars, idx, purchase_info,
                   detail, d_bad, purchase_results, detail_calls, detail_missed, pauses,
                   ev_count, mark_count, mainVars, pairVars>>

\* variant: the receipt number is not recorded
MarkProcessedForgotten ==
    /\ pc = "m_mark"
    /\ pc' = "m_sleep"
    /\ UNCHANGED <<processed_disclosures, send_result, runs, searchVars, loopVars,
                   countVars, mainVars, pairVars>>

\* variant: every receipt number of the search result is recorded
MarkProcessedWholeBatch ==
    /\ pc = "m_mark"
    /\ processed_disclosures' = processed_disclosures
                                \cup {disclosures[i].rcept_no : i \in 1..Len(disclosures)}
    /\ mark_count' = [mark_count EXCEPT ![Current.rcept_no] = @ + 1]
    /\ pc' = "m_sleep"
    /\ UNCHANGED <<send_result, runs, searchVars, loopVars,
                   ev_count, send_count, send_failed, mainVars, pairVars>>

\* variant: the receipt number is recorded only after a delivered alert
MarkProcessedIfSent ==
    /\ pc = "m_mark"
    /\ IF send_result
       THEN /\ processed_disclosures' = processed_disclosures \cup {Current.rcept_no}
            /\ mark_count' = [mark_count EXCEPT ![Current.rcept_no] = @ + 1]
       ELSE UNCHANGED <<processed_disclosures, mark_count>>
    /\ pc' = "m_sleep"
    /\ UNCHANGED <<send_result, runs, searchVars, loopVars,
                   ev_count, send_count, send_failed, mainVars, pairVars>>

\* variant: the loop goes on to the next disclosure without the pause
MarkProcessedNoPause ==
    /\ pc = "m_mark"
    /\ processed_disclosures' = processed_disclosures \cup {Current.rcept_no}
    /\ mark_count' = [mark_count EXCEPT ![Current.rcept_no] = @ + 1]
    /\ idx' = idx + 1
    /\ purchase_info' = NoInfo
    /\ pc' = "m_loop"
    /\ UNCHANGED <<send_result, runs, searchVars, detail, d_bad, purchase_results,
                   detail_calls, detail_missed, alerts, pauses,
                   ev_count, send_count, send_failed, mainVars, pairVars>>

\* self.processed_disclosures.add(disclosure.rcept_no)
MarkProcessed ==
    /\ pc = "m_mark"
    /\ processed_disclosures' = processed_disclosures \cup {Current.rcept_no}
    /\ mark_count' = [mark_count EXCEPT ![Current.rcept_no] = @ + 1]
    /\ pc' = "m_sleep"
    /\ UNCHANGED <<send_result, runs, searchVars, loopVars,
                   ev_count, send_count, send_failed, mainVars, pairVars>>

\* time.sleep(1), then the next disclosure
Sleep ==
    /\ pc = "m_sleep"
    /\ pauses' = pauses + 1
    /\ idx' = idx + 1
    /\ purchase_info' = NoInfo
    /\ pc' = "m_loop"
    /\ UNCHANGED <<processed_disclosures, send_result, runs, searchVars,
                   detail, d_bad, purchase_results, detail_calls, detail_missed,
                   alerts,
                   countVars, mainVars, pairVars>>

(* --------------------------- main, continued -------------------------- *)
\* variant: the completion message is sent after saving, too
SaveResultsAndNotify ==
    /\ pc = "m_returned"
    /\ purchase_results # <<>>
    /\ \E written \in BOOLEAN :
          result_file' = IF written THEN purchase_results ELSE <<>>
    /\ \E ok \in BOOLEAN : send_result' = ok
    /\ term_sends' = term_sends + 1
    /\ outcome' = "events"
    /\ pc' = "finally"
    /\ UNCHANGED <<processed_disclosures, runs, searchVars, loopVars,
                   countVars, telegram_token, telegram_chat_id, monitor,
                   run_complete_logged, test_sends, upstream_pages, pairVars>>

\* variant: only the first event of the run is written to the file
SaveResultsFirstOnly ==
    /\ pc = "m_returned"
    /\ purchase_results # <<>>
    /\ \E written \in BOOLEAN :
          result_file' = IF written THEN <<purchase_results[1]>> ELSE <<>>
    /\ outcome' = "events"
    /\ pc' = "finally"
    /\ UNCHANGED <<processed_disclosures, send_result, runs, searchVars, loopVars,
                   countVars, telegram_token, telegram_chat_id, monitor,
                   run_complete_logged, test_sends, term_sends, upstream_pages, pairVars>>

\* if results: monitor.save_results(results); an I/O error is caught inside
SaveResults ==
    /\ pc = "m_returned"
    /\ purchase_results # <<>>
    /\ \E written \in BOOLEAN :
          result_file' = IF written THEN purchase_results ELSE <<>>
    /\ outcome' = "events"
    /\ pc' = "finally"
    /\ UNCHANGED <<processed_disclosures, send_result, runs, searchVars, loopVars,
                   countVars, telegram_token, telegram_chat_id, monitor,
                   run_complete_logged, test_sends, term_sends, upstream_pages, pairVars>>

\* else: monitor.telegram.send_message(completion_message)
SendCompletion ==
    /\ pc = "m_returned"
    /\ purchase_results = <<>>
    /\ \E ok \in BOOLEAN : send_result' = ok
    /\ term_sends' = term_sends + 1
    /\ outcome' = "no_events"
    /\ pc' = "finally"
    /\ UNCHANGED <<processed_disclosures, runs, searchVars, loopVars, countVars,
                   telegram_token, telegram_chat_id, monitor, result_file,
                   run_complete_logged, test_sends, upstream_pages, pairVars>>

\* except Exception: if 'monitor' in locals(): send_message(error_message)
MainExcept ==
    /\ pc = "m_raised"
    /\ IF monitor
       THEN /\ \E ok \in BOOLEAN : send_result' = ok
            /\ term_sends' = term_sends + 1
       ELSE UNCHANGED <<send_result, term_sends>>
    /\ outcome' = "error"
    /\ pc' = "finally"
    /\ UNCHANGED <<processed_disclosures, runs, searchVars, loopVars, countVars,
                   telegram_token, telegram_chat_id, monitor, result_file,
                   run_complete_logged, test_sends, upstream_pages, pairVars>>

\* finally: logging.info("모니터링 완료")
FinalLog ==
    /\ pc = "finally"
    /\ run_complete_logged' = TRUE
    /\ pc' = "done"
    /\ UNCHANGED <<processed_disclosures, send_result, runs, searchVars, loopVars,
                   countVars, telegram_token, telegram_chat_id, monitor, result_file,
                   outcome, test_sends, term_sends, upstream_pages, pairVars>>

(* ------------------------- the resident caller ------------------------ *)
\* the next call on the same instance, after the previous one returned or raised
CallMonitor ==
    /\ pc \in {"idle", "m_returned", "m_raised"}
    /\ runs < MaxRuns
    /\ pc' = "m_start"
    /\ UNCHANGED <<processed_disclosures, send_result, runs, searchVars, loopVars,
                   countVars, mainVars, pairVars>>

(* ------------------------- a pair of executions ----------------------- *)
\* the first execution has returned or raised: what it gave is kept, and a
\* second one starts on a fresh instance, to be served the same replies
SecondExecution ==
    /\ mode = "record"
    /\ pc \in {"m_returned", "m_raised"}
    /\ first_run' = [results |-> purchase_results,
                     processed |-> processed_disclosures,
                     raised |-> (pc = "m_raised"),
                     failed |-> send_failed]
    /\ mode' = "replay"
    /\ processed_disclosures' = {}
    /\ ev_count' = [r \in Receipts |-> 0]
    /\ send_count' = [r \in Receipts |-> 0]
    /\ mark_count' = [r \in Receipts |-> 0]
    /\ send_failed' = {}
    /\ send_result' = TRUE
    /\ pc' = "m_start"
    /\ UNCHANGED <<runs, searchVars, loopVars, mainVars, call_log, replay_pos>>

(* --------------------------- specifications --------------------------- *)
MonitorStep ==
    \/ MonitorStart
    \/ GetKospi
    \/ GetKosdaq
    \/ Merge
    \/ FilterAndAdvance
    \/ SearchReturn
    \/ CheckEmpty
    \/ LoopExit
    \/ SkipProcessed
    \/ FetchDetail
    \/ CheckPurchase
    \/ AppendResult
    \/ SendAlert
    \/ MarkProcessed
    \/ Sleep

Next ==
    \/ SetupLogging
    \/ CheckEnv
    \/ ConstructMonitor
    \/ SendTestMessage
    \/ MonitorStep
    \/ SaveResults
    \/ SendCompletion
    \/ MainExcept
    \/ FinalLog

NextRuns ==
    \/ CallMonitor
    \/ MonitorStep

NextPair ==
    \/ MonitorStep
    \/ SecondExecution

\* one execution of main()
Spec == Init /\ [][Next]_vars

\* main() is a sequential program: it keeps running while a step is possible
FairSpec == Init /\ [][Next]_vars /\ WF_vars(Next)

\* MaxRuns calls of monitor_executive_purchases on one instance
SpecRuns == InitRuns /\ [][NextRuns]_vars

\* two executions of monitor_executive_purchases on the same replies
SpecPair == InitPair /\ [][NextPair]_vars

(* ------------------------------ properties ---------------------------- *)
InSearchLoop == pc \in {"s_kospi", "s_kosdaq", "s_merge", "s_filter"}

\* entries the two listing calls of the current page delivered
CombinedCount ==
    Len(Contribution(kospi_data)) + Len(Contribution(kosdaq_data))

\* C1: the search requests page 1, 2, ... and leaves the loop exactly at the
\* first page whose combined entry count is 0 or below 100, or after page
\* 10; no page above 10 is requested, at most 10 iterations are made and a
\* search that has started always leaves the loop.
C1_PaginationStops ==
    /\ [](pc = "s_kospi" => <>(~InSearchLoop))
    /\ [][pc = "m_start" => page_no' = 1 /\ iterations' = 0]_vars
    /\ [](InSearchLoop => page_no \in 1..PageCap)
    /\ [](pc \in {"s_kosdaq", "s_merge", "s_filter"} => iterations = page_no)
    /\ [](iterations <= PageCap)
    /\ [][pc = "s_filter" =>
            /\ (pc' = "s_return") <=>
                  (CombinedCount = 0 \/ CombinedCount < 100 \/ page_no = 10)
            /\ pc' # "s_return" => pc' = "s_kospi" /\ page_no' = page_no + 1
            /\ iterations' = iterations]_vars
    /\ [][pc = "s_return" => pc' = "m_check"]_vars

\* C1 witness: pages of combined length 100, 100, 100, 50 end the search in
\* its 4th iteration
C1_Witness ==
    /\ pc = "s_return"
    /\ iterations = 4
    /\ page_no = 4
    /\ CombinedCount = 50

\* C2: over all runs on one instance a receipt number is in at most one
\* event and in at most one purchase alert.
C2_AtMostOnce ==
    \A r \in Receipts : ev_count[r] <= 1 /\ send_count[r] <= 1

\* C2 witness: the second run meets a receipt number whose event was
\* produced by the first run
C2_Witness ==
    /\ runs = 2
    /\ pc = "m_loop"
    /\ idx <= Len(disclosures)
    /\ purchase_results = <<>>
    /\ ev_count[Current.rcept_no] = 1
    /\ send_count[Current.rcept_no] = 1

\* C3: whenever no filing is between its append and its mark, the processed
\* set is exactly the set of receipt numbers for which an event was appended.
C3_ProcessedIffEvent ==
    pc \notin {"m_send", "m_mark"} =>
        processed_disclosures = {r \in Receipts : ev_count[r] >= 1}

\* C3 witness: one filing was recorded with its event, another one had no
\* evidence or no detail and stays outside the set
C3_Witness ==
    /\ pc = "m_loop"
    /\ \E r \in processed_disclosures : ev_count[r] = 1
    /\ \E r \in detail_missed : r \notin processed_disclosures /\ ev_count[r] = 0

\* C4: the alert of a filing is sent before its receipt number is recorded,
\* the number is recorded after a failed send as after a delivered one, and
\* no receipt number is sent twice, in this run or a later one.
C4_NotifyThenMark ==
    /\ [][\A r \in Receipts :
            /\ send_count'[r] # send_count[r] =>
                  r \notin processed_disclosures /\ r \notin processed_disclosures'
            /\ (r \in processed_disclosures' /\ r \notin processed_disclosures) =>
                  send_count[r] = 1 /\ send_count'[r] = 1]_vars
    /\ [](pc # "m_mark" =>
            \A r \in Receipts : send_count[r] >= 1 => r \in processed_disclosures)
    /\ [](send_failed \subseteq {r \in Receipts : send_count[r] = 1})

\* C4 witness: a later run meets a filing whose alert failed; it is recorded
C4_Witness ==
    /\ runs = 2
    /\ pc = "m_loop"
    /\ idx <= Len(disclosures)
    /\ purchase_results = <<>>
    /\ Current.rcept_no \in send_failed
    /\ Current.rcept_no \in processed_disclosures

\* C5 as stated: an execution of main that has ended sent exactly one
\* completion or error message.
C5_OneTerminalSendAlways ==
    pc = "done" => term_sends = 1

\* C5 amended: an ended execution sent exactly one completion or error
\* message if the monitor was built and the run found no event or raised,
\* and none otherwise (missing credentials, setup_logging raising, a run
\* with events); never more than one.
C5_TerminalSend ==
    /\ term_sends <= 1
    /\ pc = "crashed" => term_sends = 0
    /\ pc = "done" =>
          /\ outcome = "no_events" => monitor /\ term_sends = 1
          /\ outcome = "error" => term_sends = (IF monitor THEN 1 ELSE 0)
          /\ outcome = "no_credentials" => ~monitor /\ term_sends = 0 /\ test_sends = 0
          /\ outcome = "events" => term_sends = 0 /\ purchase_results # <<>>

\* C5 witness: a run with an event ends without a terminal message
C5_Witness ==
    /\ pc = "done"
    /\ outcome = "events"
    /\ Len(purchase_results) >= 1
    /\ term_sends = 0

\* C6: in one run on a fresh instance, a receipt number that occurs once or
\* several times in the search result and whose detail shows evidence has,
\* once its occurrences are handled, exactly one event, one alert and one
\* insertion.
C6_ExactlyOnce ==
    pc = "m_loop" =>
        \A j \in 1..Len(disclosures) :
            (j < idx /\ disclosures[j].rcept_no \notin detail_missed) =>
                LET r == disclosures[j].rcept_no
                IN  /\ ev_count[r] = 1
                    /\ send_count[r] = 1
                    /\ mark_count[r] = 1
                    /\ r \in processed_disclosures
                    /\ Cardinality({k \in 1..Len(purchase_results) :
                                      purchase_results[k].disclosure.rcept_no = r}) = 1

\* C6 witness: the same receipt number listed twice, both handled
C6_Witness ==
    /\ pc = "m_loop"
    /\ Len(disclosures) = 2
    /\ idx = 3
    /\ disclosures[1].rcept_no = disclosures[2].rcept_no
    /\ detail_missed = {}
    /\ Len(purchase_results) = 1

\* C7: a listing call that failed in transport or answered with a status
\* other than "000" adds nothing to the combined page and raises nothing;
\* the entries of the other call are merged and classified all the same.
C7_BadCallIsEmpty ==
    /\ [](pc \in {"s_kosdaq", "s_merge", "s_filter"} /\ y_bad =>
             kospi_data.kind = "dict" /\ Contribution(kospi_data) = <<>>)
    /\ [](pc \in {"s_merge", "s_filter"} /\ k_bad =>
             kosdaq_data.kind = "dict" /\ Contribution(kosdaq_data) = <<>>)
    /\ [][(/\ pc = "s_merge"
           /\ y_bad \/ kospi_data.kind = "dict"
           /\ k_bad \/ kosdaq_data.kind = "dict") =>
            /\ pc' = "s_filter"
            /\ all_data' = (IF y_bad THEN <<>> ELSE Contribution(kospi_data))
                           \o (IF k_bad THEN <<>> ELSE Contribution(kosdaq_data))
            /\ y_bad => all_data' = Contribution(kosdaq_data)
            /\ k_bad => all_data' = Contribution(kospi_data)]_vars
    /\ [][pc = "s_filter" /\ all_data # <<>> =>
            /\ pc' \in {"s_kospi", "s_return"}
            /\ disclosures' = disclosures \o Qualifying(all_data)]_vars

\* C7 witness: the main-board call failed, the secondary-board call
\* delivered a qualifying entry that is about to be classified
C7_Witness ==
    /\ pc = "s_filter"
    /\ y_bad
    /\ ~k_bad
    /\ Qualifying(all_data) # <<>>

\* C8: with the bot token or the chat identifier absent (or empty), no
\* listing call and no detail call is issued and no monitor is built.
C8_NoCredentialsNoCalls ==
    (telegram_token # "set" \/ telegram_chat_id # "set") =>
        /\ list_calls = 0
        /\ detail_calls = 0
        /\ ~monitor
        /\ runs = 0
        /\ pc \in {"main", "main_env", "crashed", "finally", "done"}

\* C8 witness: main has ended with only the chat identifier absent
C8_Witness ==
    /\ pc = "done"
    /\ telegram_token = "set"
    /\ telegram_chat_id = "None"

\* C9 as stated: an execution of main that has ended, in whatever way, has
\* logged the final line.
C9_FinalLogAlways ==
    pc \in {"done", "crashed"} => run_complete_logged

\* C9 amended: once setup_logging has returned, the final line is
\* eventually logged, whatever the outcome; main ends only after logging it,
\* except when setup_logging itself raised, and then the line is not logged.
C9_FinalLog ==
    /\ [](pc = "main_env" => <>run_complete_logged)
    /\ [](pc = "done" => run_complete_logged)
    /\ [](pc = "crashed" => ~run_complete_logged)

\* C9 witness: the line is logged after an error raised inside the try block
C9_Witness ==
    /\ pc = "done"
    /\ outcome = "error"
    /\ run_complete_logged

\* C10: every alert of a run is followed by one pause before the next
\* disclosure is looked at, and a pause happens only after the alert of its
\* own filing: none before the first alert of the run.
C10_PauseAfterSend ==
    /\ [](pc \in {"m_loop", "m_returned"} => pauses = alerts)
    /\ [](pc = "m_send" => pauses = alerts)
    /\ [](pc \in {"m_mark", "m_sleep"} => alerts = pauses + 1)
    /\ [][pauses' # pauses =>
            pc = "m_sleep" /\ pauses' = pauses + 1 /\ alerts' = alerts
            /\ alerts = pauses + 1]_vars
    /\ [][alerts' = alerts + 1 /\ send_result' =>
            pc' = "m_mark" /\ pauses' = pauses]_vars

\* C10 witness: the pause after the first delivered alert of a run is over
C10_Witness ==
    /\ pc = "m_loop"
    /\ alerts = 1
    /\ pauses = 1
    /\ send_failed = {}

\* receipt numbers of the events in a result list
EventReceipts(results) == {results[k].disclosure.rcept_no : k \in 1..Len(results)}

\* receipt numbers for which the run appended an event
RunEvents == {r \in Receipts : ev_count[r] >= 1}

\* C11 as stated: after main has run the monitor, a result file exists
\* exactly if the run produced an event, and the completion message was sent
\* exactly if it produced none.
C11_FileIffEvents ==
    pc = "done" /\ runs = 1 =>
        /\ result_file # <<>> <=> RunEvents # {}
        /\ outcome = "no_events" <=> RunEvents = {}

\* C11 amended: when the run returns, save_results is called exactly if the
\* list of events is not empty and the completion message is sent exactly if
\* it is empty; the list holds every event of the run; the file, if its
\* write succeeds, holds that whole list, and no file exists after a failed
\* write, a run without events or a run that raised.  Saving, failed or
\* not, sends nothing and leaves alerts, marks and events as they were.
C11_SaveOrComplete ==
    /\ [](pc = "m_returned" =>
            /\ EventReceipts(purchase_results) = RunEvents
            /\ Len(purchase_results) = Cardinality(RunEvents))
    /\ [][pc = "m_returned" =>
            /\ pc' = "finally"
            /\ outcome' = (IF purchase_results # <<>> THEN "events" ELSE "no_events")
            /\ purchase_results # <<>> =>
                  /\ result_file' \in {purchase_results, <<>>}
                  /\ UNCHANGED <<term_sends, test_sends, alerts, pauses, send_result,
                                 countVars, processed_disclosures, purchase_results>>
            /\ purchase_results = <<>> =>
                  /\ result_file' = <<>>
                  /\ term_sends' = term_sends + 1]_vars
    /\ [](result_file # <<>> =>
            /\ outcome = "events"
            /\ result_file = purchase_results
            /\ EventReceipts(result_file) = RunEvents)
    /\ [](outcome = "no_events" => RunEvents = {} /\ term_sends = 1)
    /\ [](outcome = "events" => RunEvents # {} /\ term_sends = 0)

\* C11 witness: a run with two events has ended and its file holds both
C11_Witness ==
    /\ pc = "done"
    /\ outcome = "events"
    /\ Len(purchase_results) = 2
    /\ result_file = purchase_results
    /\ send_failed # {}

\* the four title variants: with U+318D, with U+00B7, officer-only,
\* major-shareholder-only
TitleVariants ==
    {<<"imwon", "araea", "juyojuju", "tail">>,
     <<"imwon", "middot", "juyojuju", "tail">>,
     <<"imwon", "tail">>,
     <<"juyojuju", "tail">>}

\* the name is some text, a variant, some text
HasTitleVariant(nm) ==
    \E v \in TitleVariants :
        \E before \in 0..Len(nm) :
            /\ before + Len(v) <= Len(nm)
            /\ \A j \in 1..Len(v) : nm[before + j] = v[j]

\* report names: every variant bare and inside other text, and near misses
NameSamples ==
    TitleVariants
    \cup {<<"x", "sp">> \o v : v \in TitleVariants}
    \cup {v \o <<"sp", "x">> : v \in TitleVariants}
    \cup {<<"x">> \o v \o <<"x">> : v \in TitleVariants}
    \cup {<<>>, <<"x">>, <<"tail">>, <<"imwon">>, <<"imwon", "sp", "tail">>,
          <<"imwon", "araea", "juyojuju">>, <<"imwon", "araea", "tail">>,
          <<"juyojuju", "x", "tail">>, <<"tail", "imwon">>,
          <<"imwon", "araea", "juyojuju", "sp", "tail">>,
          <<"x", "middot", "juyojuju", "tail", "x">>}

\* C12: the search result is the entries of the fetched pages (status "000")
\* whose report name contains one of the four title variants, whatever text
\* surrounds it, and no other entry; the entries stand in fetch order, pages
\* ascending and within a page the main board before the secondary board.
C12_ExactFilterInOrder ==
    /\ [](\A nm \in NameSamples : IsExecutiveReport(nm) <=> HasTitleVariant(nm))
    /\ [][pc = "m_start" => disclosures' = <<>> /\ page_no' = 1]_vars
    /\ [][pc = "s_filter" =>
            /\ disclosures' =
                  disclosures
                  \o SelectSeq(Contribution(kospi_data),
                               LAMBDA e : HasTitleVariant(e.report_nm))
                  \o SelectSeq(Contribution(kosdaq_data),
                               LAMBDA e : HasTitleVariant(e.report_nm))
            /\ page_no' \in {page_no, page_no + 1}
            /\ pc' = "s_kospi" => page_no' = page_no + 1]_vars
    /\ [][(pc = "s_kospi" \/ pc = "s_kosdaq" \/ pc = "s_return") =>
            /\ disclosures' = disclosures
            /\ page_no' = page_no \/ page_no' = 0]_vars
    /\ [][pc = "s_merge" /\ pc' = "s_filter" =>
            /\ disclosures' = disclosures
            /\ page_no' = page_no]_vars

\* C12 witness: page 2 of a search delivered one entry per segment, of which
\* one qualifies; the result holds it behind the entry of page 1
C12_Witness ==
    /\ pc = "s_return"
    /\ page_no = 2
    /\ Len(Contribution(kospi_data)) = 1
    /\ Len(Contribution(kosdaq_data)) = 1
    /\ ~HasTitleVariant(Contribution(kospi_data)[1].report_nm)
    /\ HasTitleVariant(Contribution(kosdaq_data)[1].report_nm)
    /\ Len(disclosures) = 2
    /\ disclosures[2] = Contribution(kosdaq_data)[1]
    /\ disclosures[1].rcept_no # disclosures[2].rcept_no

\* the purchase-keyword set: 장내매수, 장내 매수, 매수, 취득
PurchaseKeywordSet ==
    {<<"jang", "nae", "mae", "su">>, <<"jang", "nae", "sp", "mae", "su">>,
     <<"mae", "su">>, <<"chwi", "deuk">>}

MentionsPurchase(content) == \E k \in PurchaseKeywordSet : Contains(k, content)

\* the fetched detail is an object with status "000" and a document list
DetailUsable == detail.kind = "dict" /\ detail.status = "000" /\ detail.has_list

\* C13 as stated: check_purchase_transaction returns the evidence of the
\* first document, in list order, whose content contains a keyword of the
\* purchase-keyword set, and returns none exactly if no document contains one.
C13_FirstKeywordDocument ==
    [][pc = "m_detail" /\ DetailUsable =>
          LET docs == detail.list
              kw == {i \in 1..Len(docs) : MentionsPurchase(docs[i])}
              first == CHOOSE i \in kw : \A j \in kw : i <= j
          IN  /\ kw = {} <=> pc' = "m_loop"
              /\ kw # {} => /\ pc' = "m_append"
                            /\ purchase_info'.found
                            /\ purchase_info'.content_preview = docs[first]]_vars

\* C14 as stated: every call of extract_purchase_details that
\* check_purchase_transaction makes, on a document in which it found a
\* keyword, returns evidence; the return of none is never taken.
C14_NoneBranchUnreachable ==
    pc = "m_detail" /\ DetailUsable =>
        LET docs == detail.list
            called == {i \in 1..Len(docs) :
                         /\ HasPurchaseKeyword(docs[i])
                         /\ \A j \in 1..(i - 1) :
                               ~(/\ HasPurchaseKeyword(docs[j])
                                 /\ extract_purchase_details(docs[j]).found)}
        IN  \A i \in called : extract_purchase_details(docs[i]).found

\* 장내매수 or 장내 매수 occurs in the content
HasStrictPhrase(content) ==
    \/ Contains(<<"jang", "nae", "mae", "su">>, content)
    \/ Contains(<<"jang", "nae", "sp", "mae", "su">>, content)

\* 매수 occurs in the content
HasLoosePhrase(content) == Contains(<<"mae", "su">>, content)

\* the label the classification gives to evidence taken from this content
LabelOf(content) == IF HasStrictPhrase(content) THEN "jangnaemaesu" ELSE "maesu"

WellLabelled(info) ==
    /\ info.found
    /\ info.transaction_type = info.reason
    /\ info.transaction_type = LabelOf(info.content_preview)
    /\ HasStrictPhrase(info.content_preview) \/ HasLoosePhrase(info.content_preview)

\* C15: evidence taken from a content with 장내매수 or 장내 매수 has type and
\* reason 장내매수, also when 매수 occurs in it separately; evidence from a
\* content with 매수 only has type and reason 매수; type and reason are
\* always equal; a filing none of whose documents has either phrase gives
\* none, and otherwise the first document that has one gives the evidence.
C15_Classification ==
    /\ [](pc \in {"m_append", "m_send", "m_mark", "m_sleep"} => WellLabelled(purchase_info))
    /\ [](\A k \in 1..Len(purchase_results) : WellLabelled(purchase_results[k].purchase_info))
    /\ [][pc = "m_detail" /\ DetailUsable =>
            LET docs == detail.list
                hits == {i \in 1..Len(docs) :
                            HasStrictPhrase(docs[i]) \/ HasLoosePhrase(docs[i])}
                first == CHOOSE i \in hits : \A j \in hits : i <= j
            IN  /\ hits = {} => pc' = "m_loop" /\ UNCHANGED purchase_results
                /\ hits # {} => /\ pc' = "m_append"
                                /\ purchase_info'.content_preview = docs[first]
                                /\ purchase_info'.transaction_type = LabelOf(docs[first])
                                /\ purchase_info'.reason = LabelOf(docs[first])]_vars

\* C15 witness: evidence from a content that has 매수 and, elsewhere, 장내매수
C15_Witness ==
    /\ pc = "m_append"
    /\ purchase_info.content_preview = C_both
    /\ purchase_info.transaction_type = "jangnaemaesu"
    /\ purchase_info.reason = "jangnaemaesu"

\* C16: when the detail call of a qualifying filing fails in transport or
\* answers with a status other than "000", the filing gives no event, no
\* alert, no pause and no insertion into the processed set, nothing is
\* raised to the caller, and the loop goes on with the next filing.
C16_DetailFailureSkips ==
    /\ [](pc = "m_detail" /\ d_bad =>
            /\ detail.kind = "dict"
            /\ detail = EmptyDict \/ detail.status # "000")
    /\ [][pc = "m_detail" /\ d_bad =>
            /\ pc' = "m_loop"
            /\ idx' = idx + 1
            /\ UNCHANGED <<processed_disclosures, purchase_results, countVars,
                           alerts, pauses, disclosures, send_result, term_sends>>]_vars

\* C16 witness: the detail of the first of two filings came back with
\* status "020", along with a document that names an on-market purchase
C16_Witness ==
    /\ pc = "m_detail"
    /\ d_bad
    /\ idx = 1
    /\ Len(disclosures) = 2
    /\ detail.status = "020"
    /\ detail.list = <<C_onmarket>>

InFilingLoop == pc \in {"m_detail", "m_append", "m_send", "m_mark", "m_sleep"}

\* the filings before position i are done: recorded after their alert and
\* pause, or left without evidence, or skipped as already recorded
DoneBefore(i) ==
    /\ alerts = pauses
    /\ \A j \in 1..(i - 1) :
          \/ disclosures[j].rcept_no \in processed_disclosures
          \/ disclosures[j].rcept_no \in detail_missed

\* C17: requests are issued one after another.  The secondary-board call of
\* a page is issued after the main-board call of that page has returned;
\* every listing call of a run returns before its first detail call; detail
\* calls go through the search result in order, one filing at a time, and
\* the alert, the mark and the pause of a filing are over before the detail
\* call of the next one.
C17_SequentialRequests ==
    /\ [](pc = "s_kospi" => list_calls = 2 * (page_no - 1) /\ detail_calls = 0)
    /\ [](pc = "s_kosdaq" =>
            list_calls = 2 * page_no - 1 /\ detail_calls = 0 /\ kospi_data # Unset)
    /\ [](pc \in {"s_merge", "s_filter"} =>
            list_calls = 2 * page_no /\ detail_calls = 0 /\ kosdaq_data # Unset)
    /\ [][list_calls' # list_calls /\ pc # "m_start" =>
            /\ pc = "s_kospi" \/ pc = "s_kosdaq"
            /\ list_calls' = list_calls + 1
            /\ detail_calls' = 0
            /\ pc = "s_kospi" => pc' = "s_kosdaq"]_vars
    /\ [][detail_calls' # detail_calls /\ pc # "m_start" =>
            /\ pc = "m_loop" /\ pc' = "m_detail"
            /\ detail_calls' = detail_calls + 1
            /\ list_calls' = list_calls
            /\ page_no = 0
            /\ idx' = idx
            /\ DoneBefore(idx)]_vars
    /\ [](InFilingLoop => idx \in 1..Len(disclosures) /\ page_no = 0)
    /\ [](pc = "m_detail" => detail # Unset)
    /\ [](pc \in {"m_loop", "m_append", "m_send", "m_mark", "m_sleep"} => detail = Unset)
    /\ [][(InFilingLoop \/ pc = "m_loop") =>
            \/ idx' = idx
            \/ idx' = idx + 1
            \/ pc' = "m_returned" \/ pc' = "m_raised"]_vars

\* C17 witness: after two pages of listing calls, the detail of the second
\* filing has been fetched once the first filing was alerted, recorded and
\* paused for
C17_Witness ==
    /\ pc = "m_detail"
    /\ list_calls = 4
    /\ detail_calls = 2
    /\ idx = 2
    /\ alerts = 1
    /\ pauses = 1
    /\ disclosures[1].rcept_no \in processed_disclosures

\* C18: when the receipt number of the disclosure at hand is already in
\* processed_disclosures, the loop only moves to the next disclosure: no
\* detail call, no alert, no pause, no event, and the set stays as it is.
\* Over all runs on one instance the set only grows.
C18_SkipIsNoOp ==
    /\ [][(/\ pc = "m_loop"
           /\ idx <= Len(disclosures)
           /\ disclosures[idx].rcept_no \in processed_disclosures) =>
            /\ pc' = "m_loop"
            /\ idx' = idx + 1
            /\ UNCHANGED <<processed_disclosures, detail_calls, list_calls, alerts,
                           pauses, purchase_results, purchase_info, countVars,
                           send_result, term_sends, test_sends, detail, d_bad,
                           detail_missed, disclosures, runs>>]_vars
    /\ [][processed_disclosures \subseteq processed_disclosures']_vars

\* C18 witness: a second run has just skipped a filing recorded by the first
\* run, with no call, alert or pause so far
C18_Witness ==
    /\ runs = 2
    /\ pc = "m_loop"
    /\ idx = 2
    /\ Len(disclosures) = 2
    /\ disclosures[1].rcept_no \in processed_disclosures
    /\ disclosures[2].rcept_no \notin processed_disclosures
    /\ detail_calls = 0
    /\ alerts = 0
    /\ pauses = 0
    /\ purchase_results = <<>>

\* the next call of the second execution is the call the first execution
\* made at the same position
NextLogged(call) ==
    /\ replay_pos < Len(call_log)
    /\ call_log[replay_pos + 1].call = call

\* C19: two executions of monitor_executive_purchases on fresh instances
\* that are served the same upstream replies and differ in what their sends
\* return issue the same listing and detail calls in the same order, return
\* the same events (or both raise) and end with the same processed set.
C19_SendOutcomeIrrelevant ==
    mode = "replay" =>
        /\ pc = "s_kospi" => NextLogged(ListCall("Y", page_no))
        /\ pc = "s_kosdaq" => NextLogged(ListCall("K", page_no))
        /\ (/\ pc = "m_loop"
            /\ idx <= Len(disclosures)
            /\ disclosures[idx].rcept_no \notin processed_disclosures) =>
              NextLogged(DetailCall(disclosures[idx].rcept_no))
        /\ pc \in {"m_returned", "m_raised"} =>
              /\ replay_pos = Len(call_log)
              /\ (pc = "m_raised") = first_run.raised
              /\ purchase_results = first_run.results
              /\ processed_disclosures = first_run.processed

\* C19 witness: both executions have returned two events; the alert of one
\* filing failed in the first execution only, that of the other in the
\* second only
C19_Witness ==
    /\ mode = "replay"
    /\ pc = "m_returned"
    /\ Len(purchase_results) = 2
    /\ first_run.failed # {}
    /\ send_failed # {}
    /\ first_run.failed \cap send_failed = {}

====
